---------------------------- MODULE Spec2Model ----------------------------
(***************************************************************************)
(* Solow growth model with Cobb-Douglas production: the two analytic       *)
(* functions of quantecon/models/solow/cobb_douglas.py,                    *)
(*     analytic_solution(cls, t, k0)   and   analytic_steady_state(cls),   *)
(* together with the model instance they read and the caller's inputs.     *)
(*                                                                         *)
(* Numbers.  The code computes in IEEE-754 binary floating point (Python   *)
(* floats and numpy float64).  The model keeps the structure of that       *)
(* arithmetic and scales the format down: a float is an integer count of   *)
(* units of 2^-FracBits, representable when its significand fits in        *)
(* Precision bits, finite up to MaxFinite; beyond that it is PosInf, and   *)
(* NaN is a value of its own.  Every operation computes the exact result   *)
(* and rounds it to the nearest representable value, ties to even, as the  *)
(* hardware does.  Signed zeros are not distinguished (exp(-0.0) = exp(0)).*)
(***************************************************************************)
EXTENDS Integers, Sequences, FiniteSets, TLC

(***************************************************************************)
(* The floating-point format                                               *)
(***************************************************************************)
Precision == 4
FracBits  == 4
MaxExp    == 10

RECURSIVE Pow2(_)
Pow2(n) == IF n = 0 THEN 1 ELSE 2 * Pow2(n - 1)

One       == Pow2(FracBits)                         \* 1.0 in units
MaxFinite == (Pow2(Precision) - 1) * Pow2(MaxExp)   \* largest finite float
PosInf    == MaxFinite + 1
NegInf    == 0 - PosInf
NaN       == PosInf + 1

IsNaN(x)    == x = NaN
IsInf(x)    == x = PosInf \/ x = NegInf
IsFinite(x) == ~IsNaN(x) /\ ~IsInf(x)
Abs(x)      == IF x < 0 THEN 0 - x ELSE x
Sign(x)     == IF x < 0 THEN 0 - 1 ELSE 1

\* The binade of the exact quotient num/den: the least k with
\* num/den < 2^Precision * 2^k.
RECURSIVE Binade(_, _, _)
Binade(num, den, k) ==
    IF num < Pow2(Precision) * Pow2(k) * den THEN k ELSE Binade(num, den, k + 1)

\* num/d rounded to the nearest integer, ties to the even one.
RoundHalfEven(num, d) ==
    LET q == num \div d
        r == num % d
    IN  IF 2 * r < d THEN q
        ELSE IF 2 * r > d THEN q + 1
        ELSE IF q % 2 = 0 THEN q ELSE q + 1

\* The float nearest to the exact non-negative quotient num/den (in units);
\* a result beyond MaxFinite overflows to PosInf.
RN(num, den) ==
    LET k == Binade(num, den, 0)
        v == RoundHalfEven(num, den * Pow2(k)) * Pow2(k)
    IN  IF v > MaxFinite THEN PosInf ELSE v

\* The same for a signed exact quotient.
RNS(num, den) ==
    LET v == RN(Abs(num), den)
    IN  IF num < 0 THEN 0 - v ELSE v

(***************************************************************************)
(* IEEE-754 arithmetic on floats (what numpy's element-wise operations     *)
(* and Python's float +, -, * compute)                                     *)
(***************************************************************************)
Neg(x) == IF IsNaN(x) THEN NaN ELSE 0 - x

Add(x, y) ==
    IF IsNaN(x) \/ IsNaN(y) THEN NaN
    ELSE IF IsInf(x) /\ IsInf(y) THEN (IF x = y THEN x ELSE NaN)
    ELSE IF IsInf(x) THEN x
    ELSE IF IsInf(y) THEN y
    ELSE RNS(x + y, 1)

Sub(x, y) == Add(x, Neg(y))

Mul(x, y) ==
    IF IsNaN(x) \/ IsNaN(y) THEN NaN
    ELSE IF IsInf(x) \/ IsInf(y)
         THEN (IF x = 0 \/ y = 0 THEN NaN
               ELSE IF Sign(x) = Sign(y) THEN PosInf ELSE NegInf)
    ELSE RNS(x * y, One)

\* IEEE division: x/0 is an infinity (0/0 is NaN), never a trap.
Div(x, y) ==
    IF IsNaN(x) \/ IsNaN(y) THEN NaN
    ELSE IF IsInf(x) THEN (IF IsInf(y) THEN NaN
                           ELSE IF Sign(x) = Sign(y) THEN PosInf ELSE NegInf)
    ELSE IF IsInf(y) THEN 0
    ELSE IF y = 0 THEN (IF x = 0 THEN NaN
                        ELSE IF x > 0 THEN PosInf ELSE NegInf)
    ELSE RNS(Sign(y) * x * One, Abs(y))

\* exp(-m/One) and exp(m/One), correctly rounded, for every representable
\* magnitude m at which the result is neither 0 nor an overflow.
ExpNegTable ==
    0 :> 16 @@ 1 :> 15 @@ 2 :> 14 @@ 3 :> 13 @@ 4 :> 12 @@ 5 :> 12 @@
    6 :> 11 @@ 7 :> 10 @@ 8 :> 10 @@ 9 :> 9 @@ 10 :> 9 @@ 11 :> 8 @@
    12 :> 8 @@ 13 :> 7 @@ 14 :> 7 @@ 15 :> 6 @@ 16 :> 6 @@ 18 :> 5 @@
    20 :> 5 @@ 22 :> 4 @@ 24 :> 4 @@ 26 :> 3 @@ 28 :> 3 @@ 30 :> 2 @@
    32 :> 2 @@ 36 :> 2 @@ 40 :> 1 @@ 44 :> 1 @@ 48 :> 1 @@ 52 :> 1

ExpPosTable ==
    0 :> 16 @@ 1 :> 18 @@ 2 :> 18 @@ 3 :> 20 @@ 4 :> 20 @@ 5 :> 22 @@
    6 :> 24 @@ 7 :> 24 @@ 8 :> 26 @@ 9 :> 28 @@ 10 :> 30 @@ 11 :> 32 @@
    12 :> 32 @@ 13 :> 36 @@ 14 :> 40 @@ 15 :> 40 @@ 16 :> 44 @@ 18 :> 48 @@
    20 :> 56 @@ 22 :> 64 @@ 24 :> 72 @@ 26 :> 80 @@ 28 :> 96 @@ 30 :> 104 @@
    32 :> 120 @@ 36 :> 144 @@ 40 :> 192 @@ 44 :> 256 @@ 48 :> 320 @@ 52 :> 416 @@
    56 :> 512 @@ 60 :> 704 @@ 64 :> 896 @@ 72 :> 1408 @@ 80 :> 2304 @@ 88 :> 3840 @@
    96 :> 6656 @@ 104 :> 10240

\* np.exp: underflows to 0 and overflows to inf silently.
Exp(x) ==
    IF IsNaN(x) THEN NaN
    ELSE IF x = PosInf THEN PosInf
    ELSE IF x = NegInf THEN 0
    ELSE IF x <= 0 THEN (IF (0 - x) \in DOMAIN ExpNegTable
                         THEN ExpNegTable[0 - x] ELSE 0)
    ELSE IF x \in DOMAIN ExpPosTable THEN ExpPosTable[x] ELSE PosInf

\* The float nearest to the real q-th root of N (in units), q in {2, 4}:
\* the binade first, then the significand by exact integer comparisons.
IntPow(c, q) == IF q = 1 THEN c ELSE IF q = 2 THEN c * c ELSE c * c * c * c

RECURSIVE RootBinade(_, _, _)
RootBinade(N, q, k) ==
    IF N < IntPow(Pow2(Precision) * Pow2(k), q) THEN k
    ELSE RootBinade(N, q, k + 1)

RNRoot(N, q) ==
    LET k  == RootBinade(N, q, 0)
        m0 == CHOOSE m \in 0 .. Pow2(Precision) :
                  /\ IntPow(m * Pow2(k), q) <= N
                  /\ N < IntPow((m + 1) * Pow2(k), q)
        mid == IntPow((2 * m0 + 1) * Pow2(k), q)
        m  == IF mid > IntPow(2, q) * N THEN m0
              ELSE IF mid < IntPow(2, q) * N THEN m0 + 1
              ELSE IF m0 % 2 = 0 THEN m0 ELSE m0 + 1
    IN  m * Pow2(k)

\* x ** y for finite x > 0 and the finite exponents y > 0 the two functions
\* produce from the model's alpha values: y and 1/y in {1, 2, 4}.
PowFinite(x, y) ==
    CASE y = One         -> x
      [] y = 2 * One     -> RN(x * x, One)
      [] y = 4 * One     -> IF x >= 8 * One THEN PosInf
                            ELSE RN(x * x * x * x, One * One * One)
      [] y = One \div 2  -> RNRoot(One * x, 2)
      [] y = One \div 4  -> RNRoot(One * One * One * x, 4)

\* IEEE pow (C99 Annex F) as numpy's ** computes it, for an exponent that
\* is not negative: a negative base gives NaN under a fractional exponent.
Pow(x, y) ==
    IF y = 0 \/ x = One THEN One
    ELSE IF IsNaN(x) \/ IsNaN(y) THEN NaN
    ELSE IF y = PosInf THEN (IF Abs(x) < One THEN 0
                             ELSE IF Abs(x) = One THEN One ELSE PosInf)
    ELSE IF x = PosInf THEN PosInf
    ELSE IF x = NegInf THEN (IF y = One THEN NegInf ELSE PosInf)
    ELSE IF x = 0 THEN 0
    ELSE IF x > 0 THEN PowFinite(x, y)
    ELSE IF y = One THEN x
    ELSE IF y < One THEN NaN
    ELSE PowFinite(0 - x, y)

(***************************************************************************)
(* Scalar operations of the interpreter.  A params mapping holds either    *)
(* Python floats ("float") or numpy scalars ("float64").  Python's float   *)
(* division raises ZeroDivisionError on a zero divisor and its ** raises   *)
(* OverflowError when a finite power overflows; numpy scalars follow IEEE  *)
(* and return inf or nan.  Array operations always follow IEEE.            *)
(***************************************************************************)
Ok(v)       == [exc |-> "none", val |-> v]
Raise(e)    == [exc |-> e, val |-> NaN]
Raised(r)   == r.exc # "none"

\* mutation: division follows IEEE for Python floats too (never raises)
ScalarDiv_IEEE(dtype, x, y) == Ok(Div(x, y))

ScalarDiv(dtype, x, y) ==
    IF dtype = "float" /\ y = 0 THEN Raise("ZeroDivisionError")
    ELSE Ok(Div(x, y))

ScalarPow(dtype, x, y) ==
    IF dtype = "float" /\ IsFinite(x) /\ IsFinite(y) /\ Pow(x, y) = PosInf
    THEN Raise("OverflowError")
    ELSE Ok(Pow(x, y))

(***************************************************************************)
(* The model instance: cls.params, and the derived rate the base class     *)
(* exposes                                                                 *)
(***************************************************************************)
Keys == {"g", "n", "s", "alpha", "delta"}

\* mutation: cls.params.get(key, 0.0): an absent key reads as 0.0
Lookup_Default(params, key) ==
    Ok(IF key \in DOMAIN params THEN params[key] ELSE 0)

\* cls.params[key]: the dict's own KeyError when the key is absent
Lookup(params, key) ==
    IF key \in DOMAIN params THEN Ok(params[key]) ELSE Raise("KeyError")

\* model.Model.effective_depreciation_rate: g + n + delta, read from params.
effective_depreciation_rate(cls) ==
    IF {"g", "n", "delta"} \subseteq DOMAIN cls.params
    THEN Ok(Add(Add(cls.params["g"], cls.params["n"]), cls.params["delta"]))
    ELSE Raise("KeyError")

(***************************************************************************)
(* analytic_steady_state(cls)                                              *)
(*   exc: the exception raised ("none": returned), val: the value          *)
(*   returned, arith: whether any arithmetic was evaluated before the      *)
(*   function returned or raised.                                          *)
(***************************************************************************)
Outcome(e, v, a) == [exc |-> e, val |-> v, arith |-> a]

\* mutation: the exponent is 1 - alpha, its reciprocal forgotten
SteadyStateFormula_NoReciprocal(dtype, s, alpha, edr) ==
    LET base == ScalarDiv(dtype, s, edr)
    IN  IF Raised(base) THEN base
        ELSE ScalarPow(dtype, base.val, Sub(One, alpha))

\* mutation: alpha == 1 is checked for and answered with s / edr
SteadyStateFormula_Guarded(dtype, s, alpha, edr) ==
    LET base == ScalarDiv(dtype, s, edr)
    IN  IF Raised(base) \/ alpha = One THEN base
        ELSE LET expo == ScalarDiv(dtype, One, Sub(One, alpha))
             IN  IF Raised(expo) THEN expo
                 ELSE ScalarPow(dtype, base.val, expo.val)

\* k_star = (s / cls.effective_depreciation_rate)**(1 / (1 - alpha)),
\* evaluated left to right
SteadyStateFormula(dtype, s, alpha, edr) ==
    LET base == ScalarDiv(dtype, s, edr)
    IN  IF Raised(base) THEN base
        ELSE LET expo == ScalarDiv(dtype, One, Sub(One, alpha))
             IN  IF Raised(expo) THEN expo
                 ELSE ScalarPow(dtype, base.val, expo.val)

analytic_steady_state(cls) ==
    LET s == Lookup(cls.params, "s")
    IN  IF Raised(s) THEN Outcome(s.exc, NaN, FALSE)
        ELSE
        LET alpha == Lookup(cls.params, "alpha")
        IN  IF Raised(alpha) THEN Outcome(alpha.exc, NaN, FALSE)
            ELSE
            LET edr == effective_depreciation_rate(cls)
            IN  IF Raised(edr) THEN Outcome(edr.exc, NaN, FALSE)
                ELSE
                LET k_star == SteadyStateFormula(cls.dtype, s.val, alpha.val,
                                                 edr.val)
                IN  Outcome(k_star.exc, k_star.val, TRUE)

(***************************************************************************)
(* analytic_solution(cls, t, k0): t is a one-dimensional array (a          *)
(* sequence), the result a (T, 2) array (a sequence of rows <<t_i, k_i>>). *)
(* The record also exposes the bracketed expression of lines 65-66, which  *)
(* the function raises to the power 1/(1 - alpha).                         *)
(***************************************************************************)
TrajOutcome(e, rows, a, b) ==
    [exc |-> e, traj |-> rows, arith |-> a, bracket |-> b]

\* lmbda = cls.effective_depreciation_rate * (1 - alpha)
Lambda(edr, alpha) == Mul(edr, Sub(One, alpha))

\* mutation: the minus sign dropped, np.exp(lmbda * t)
ExpDecay_Growth(lmbda, t) == [i \in DOMAIN t |-> Exp(Mul(lmbda, t[i]))]

\* np.exp(-lmbda * t), element by element
ExpDecay(lmbda, t) == [i \in DOMAIN t |-> Exp(Mul(Neg(lmbda), t[i]))]

\* mutation: the two weights exchanged
Bracket_Swapped(ratio, k0pow, decay) ==
    [i \in DOMAIN decay |->
        Add(Mul(ratio, decay[i]), Mul(k0pow, Sub(One, decay[i])))]

\* mutation: the second term subtracted
Bracket_Minus(ratio, k0pow, decay) ==
    [i \in DOMAIN decay |->
        Sub(Mul(ratio, Sub(One, decay[i])), Mul(k0pow, decay[i]))]

\* mutation: the initial condition's term is not weighted by the decay
Bracket_Unweighted(ratio, k0pow, decay) ==
    [i \in DOMAIN decay |->
        Add(Mul(ratio, Sub(One, decay[i])), k0pow)]

\* (s / edr) * (1 - np.exp(-lmbda * t)) + k0**(1 - alpha) * np.exp(-lmbda * t)
Bracket(ratio, k0pow, decay) ==
    [i \in DOMAIN decay |->
        Add(Mul(ratio, Sub(One, decay[i])), Mul(k0pow, decay[i]))]

\* mutation: the rows come out sorted by time
HStack_Sorted(t, k_t) ==
    SortSeq([i \in DOMAIN t |-> <<t[i], k_t[i]>>],
            LAMBDA a, b : a[1] < b[1])

\* np.hstack((t[:, np.newaxis], k_t[:, np.newaxis]))
HStack(t, k_t) == [i \in DOMAIN t |-> <<t[i], k_t[i]>>]

analytic_solution(cls, t, k0) ==
    LET s == Lookup(cls.params, "s")
    IN  IF Raised(s) THEN TrajOutcome(s.exc, <<>>, FALSE, <<>>)
        ELSE
        LET alpha == Lookup(cls.params, "alpha")
        IN  IF Raised(alpha) THEN TrajOutcome(alpha.exc, <<>>, FALSE, <<>>)
        ELSE
        LET edr == effective_depreciation_rate(cls)
        IN  IF Raised(edr) THEN TrajOutcome(edr.exc, <<>>, FALSE, <<>>)
        ELSE
        LET lmbda == Lambda(edr.val, alpha.val)
            ratio == ScalarDiv(cls.dtype, s.val, edr.val)
        IN  IF Raised(ratio) THEN TrajOutcome(ratio.exc, <<>>, TRUE, <<>>)
        ELSE
        LET k0pow == ScalarPow(cls.dtype, k0, Sub(One, alpha.val))
        IN  IF Raised(k0pow) THEN TrajOutcome(k0pow.exc, <<>>, TRUE, <<>>)
        ELSE
        LET bracket == Bracket(ratio.val, k0pow.val, ExpDecay(lmbda, t))
            expo    == ScalarDiv(cls.dtype, One, Sub(One, alpha.val))
        IN  IF Raised(expo) THEN TrajOutcome(expo.exc, <<>>, TRUE, <<>>)
        ELSE
        LET k_t == [i \in DOMAIN t |-> Pow(bracket[i], expo.val)]
        IN  TrajOutcome("none", HStack(t, k_t), TRUE, bracket)

(***************************************************************************)
(* Inputs: the parameter values, time points and initial conditions the    *)
(* caller draws from, in units of 2^-FracBits.                             *)
(***************************************************************************)
MaxLen  == 2      \* longest time array
MaxRate == 1      \* g ranges over 0 .. MaxRate sixteenths

Alphas  == {One \div 2, (3 * One) \div 4, One}
Savings == {One \div 4, One \div 2}
Deltas  == {0, One \div 8, (3 * One) \div 8}
GRates  == 0 .. MaxRate
NRates  == {0, One \div 16}
Times   == {0, One, 64 * One}
K0s     == {One, 2 * One}
DTypes  == {"float", "float64"}

FullParams ==
    {[g |-> a, n |-> b, s |-> c, alpha |-> d, delta |-> e] :
        a \in GRates, b \in NRates, c \in Savings, d \in Alphas, e \in Deltas}

\* a params dict with the keys in `missing` left out
Without(p, missing) == [k \in Keys \ missing |-> p[k]]

(***************************************************************************)
(* State: the model instance the caller holds (constructed once, its       *)
(* params fixed for its lifetime), the caller's inputs, and the result of  *)
(* the caller's last call.                                                 *)
(***************************************************************************)
VARIABLES cls, t, k0, res

vars == <<cls, t, k0, res>>

NoResult == [op |-> "none"]

\* the spec's concrete scenario, on the model's grid
DefaultParams ==
    [g |-> 0, n |-> 0, s |-> One \div 4, alpha |-> One \div 2,
     delta |-> One \div 8]

\* CobbDouglasModel(params): complete params dicts of either scalar type,
\* and dicts that lack one required key
Models ==
    {[params |-> p, dtype |-> d] : p \in FullParams, d \in DTypes}
    \cup {[params |-> Without(DefaultParams, {k}), dtype |-> d] :
             k \in Keys, d \in DTypes}

Init ==
    /\ cls \in Models
    /\ t = << >>
    /\ k0 = One
    /\ res = NoResult

\* the caller extends the time array by one point
AppendTime ==
    \E x \in Times :
        /\ Len(t) < MaxLen
        /\ t' = Append(t, x)
        /\ res' = NoResult
        /\ UNCHANGED <<cls, k0>>

\* the caller picks the initial condition
SetK0 ==
    \E k \in K0s :
        /\ k0' = k
        /\ res' = NoResult
        /\ UNCHANGED <<cls, t>>

\* kstar = analytic_steady_state(model)
CallSteadyState ==
    /\ UNCHANGED <<cls, t, k0>>
    /\ res' = [op |-> "analytic_steady_state", out |-> analytic_steady_state(cls)]

\* the caller starts the trajectory at the steady state just computed
StartAtSteadyState ==
    /\ res.op = "analytic_steady_state"
    /\ res.out.exc = "none"
    /\ k0' = res.out.val
    /\ UNCHANGED <<cls, t, res>>

\* mutation: the time array is negated in place (t *= -1) on the way
CallSolution_InPlace ==
    /\ res' = [op |-> "analytic_solution", out |-> analytic_solution(cls, t, k0)]
    /\ t' = [i \in DOMAIN t |-> Neg(t[i])]
    /\ UNCHANGED <<cls, k0>>

\* traj = analytic_solution(model, t, k0)
CallSolution ==
    /\ UNCHANGED <<cls, t, k0>>
    /\ res' = [op |-> "analytic_solution", out |-> analytic_solution(cls, t, k0)]

Next ==
    \/ AppendTime
    \/ SetK0
    \/ CallSteadyState
    \/ StartAtSteadyState
    \/ CallSolution

Spec == Init /\ [][Next]_vars

(***************************************************************************)
(* Vocabulary of the properties                                            *)
(***************************************************************************)
Complete(c) == DOMAIN c.params = Keys
EDR(c)      == effective_depreciation_rate(c).val

\* a valid parameter set: 0 < alpha < 1, s > 0, effective_depreciation_rate > 0
Valid(c) ==
    /\ Complete(c)
    /\ c.params["alpha"] > 0 /\ c.params["alpha"] < One
    /\ c.params["s"] > 0
    /\ EDR(c) > 0 /\ IsFinite(EDR(c))

\* alpha == 1 or effective_depreciation_rate == 0
Degenerate(c) ==
    /\ Complete(c)
    /\ (c.params["alpha"] = One \/ EDR(c) = 0)

Positive(x) == IsFinite(x) /\ x > 0

SteadyCalled   == res.op = "analytic_steady_state"
SolutionCalled == res.op = "analytic_solution"
Returned       == res.out.exc = "none"

\* the capital column of the returned trajectory
K(i) == res.out.traj[i][2]

\* what analytic_steady_state returns for the model instance
KStar(c) == analytic_steady_state(c).val

\* the time point tau is so late that exp(-lmbda * tau) has underflowed to 0
Late(c, tau) ==
    Exp(Mul(Neg(Lambda(EDR(c), c.params["alpha"])), tau)) = 0

(***************************************************************************)
(* C1: steady state of a valid parameter set                               *)
(***************************************************************************)
\* the value of the formula in IEEE arithmetic
SteadyValue(c) ==
    Pow(Div(c.params["s"], EDR(c)), Div(One, Sub(One, c.params["alpha"])))

\* C1 as stated: for every valid parameter set analytic_steady_state
\* returns a finite, strictly positive value.
C1_FinitePositive ==
    (SteadyCalled /\ Valid(cls)) => (Returned /\ Positive(res.out.val))

\* C1, amended: for a valid parameter set analytic_steady_state either
\* returns the IEEE value of (s/edr)**(1/(1-alpha)), which is never NaN and
\* never negative, or (Python floats only) raises OverflowError because that
\* power overflows; it returns a finite value whenever s <= edr and a
\* strictly positive one whenever s >= edr; and two parameter sets of the
\* same scalar type with equal s, alpha and g + n + delta give the same
\* outcome.
C1_SteadyState ==
    (SteadyCalled /\ Valid(cls)) =>
        /\ res.out.exc \in {"none", "OverflowError"}
        /\ Returned => /\ res.out.val = SteadyValue(cls)
                       /\ ~IsNaN(res.out.val)
                       /\ res.out.val >= 0
        /\ ~Returned => /\ cls.dtype = "float"
                        /\ SteadyValue(cls) = PosInf
        /\ cls.params["s"] <= EDR(cls) => (Returned /\ IsFinite(res.out.val))
        /\ (cls.params["s"] >= EDR(cls) /\ Returned) => res.out.val > 0
        /\ \A m \in Models :
               (/\ m.dtype = cls.dtype
                /\ Complete(m)
                /\ m.params["s"] = cls.params["s"]
                /\ m.params["alpha"] = cls.params["alpha"]
                /\ EDR(m) = EDR(cls))
               => analytic_steady_state(m) = res.out

\* a steady state computed from g + n + delta with delta = 0, finite and
\* positive
C1_Witness ==
    /\ SteadyCalled /\ Valid(cls) /\ Returned
    /\ Positive(res.out.val)
    /\ cls.params["delta"] = 0
    /\ res.out.val # One

(***************************************************************************)
(* C2: starting at the steady state                                        *)
(***************************************************************************)
\* the caller passed k0 = analytic_steady_state(model), a finite positive
\* value, for a valid parameter set
AtSteadyState ==
    /\ SolutionCalled /\ Valid(cls)
    /\ analytic_steady_state(cls).exc = "none"
    /\ k0 = KStar(cls)
    /\ Positive(k0)

\* what line 66 makes of k0 at exp(-lmbda * t_i) = 1: k0 raised to 1 - alpha
\* and then to 1/(1 - alpha)
RoundTrip(c, x) ==
    Pow(Pow(x, Sub(One, c.params["alpha"])),
        Div(One, Sub(One, c.params["alpha"])))

KAt(c, tau, k) == analytic_solution(c, <<tau>>, k).traj[1][2]

\* C3: a call that returns gives exactly one row per input time point, in
\* the input's order: row i holds t_i itself and the capital value the
\* function computes for t_i alone; with a valid parameter set and a
\* positive k0 the call does return.
C3_Rows ==
    SolutionCalled =>
        /\ (Valid(cls) /\ Positive(k0)) => Returned
        /\ Returned =>
              /\ Len(res.out.traj) = Len(t)
              /\ \A i \in DOMAIN t :
                     /\ Len(res.out.traj[i]) = 2
                     /\ res.out.traj[i][1] = t[i]
                     /\ K(i) = KAt(cls, t[i], k0)

\* an unsorted time array whose two rows carry different capital values
C3_Witness ==
    /\ SolutionCalled /\ Valid(cls) /\ Returned
    /\ Len(t) = 2
    /\ t[1] > t[2]
    /\ K(1) # K(2)

(***************************************************************************)
(* C4: the row at time zero                                                *)
(***************************************************************************)
\* C4 as stated: for a valid parameter set and any positive k0 the row of a
\* time point t_i = 0 is exactly (0, k0).
C4_InitialExact ==
    (SolutionCalled /\ Valid(cls) /\ Positive(k0)) =>
        (Returned /\ \A i \in DOMAIN t : t[i] = 0 => res.out.traj[i] = <<0, k0>>)

\* C4, amended: for a valid parameter set (s/edr finite) and a positive k0
\* the row of a time point t_i = 0 is (0, (k0**(1-alpha))**(1/(1-alpha))):
\* exactly (0, k0) when k0 = 1.0, as in the concrete scenario, and whenever
\* the two powers round-trip; otherwise k0 up to their rounding.
C4_Initial ==
    (SolutionCalled /\ Valid(cls) /\ Positive(k0)
        /\ IsFinite(Div(cls.params["s"], EDR(cls)))) =>
        /\ Returned
        /\ \A i \in DOMAIN t :
               t[i] = 0 => /\ res.out.traj[i] = <<0, RoundTrip(cls, k0)>>
                           /\ k0 = One => res.out.traj[i] = <<0, One>>

\* the concrete scenario: t = [0], k0 = 1.0 returns [(0, 1.0)]
C4_Witness ==
    /\ SolutionCalled /\ Valid(cls)
    /\ cls.params = DefaultParams
    /\ t = <<0>> /\ k0 = One
    /\ res.out.traj = <<<<0, One>>>>

(***************************************************************************)
(* C5: convergence to the steady state                                     *)
(***************************************************************************)
LambdaOf(c) == Lambda(EDR(c), c.params["alpha"])

InfOrNaN(x) == IsInf(x) \/ IsNaN(x)

\* the value(s) the last call returned are all infinite or NaN
ResultInfOrNaN ==
    IF SteadyCalled THEN InfOrNaN(res.out.val)
    ELSE \A i \in DOMAIN res.out.traj : InfOrNaN(K(i))

\* C6 as stated: with edr == 0 or alpha == 1 neither function raises; the
\* division by zero comes back as an infinity or NaN result.
C6_SilentInfNaN ==
    ((SteadyCalled \/ SolutionCalled) /\ Degenerate(cls) /\ Positive(k0)) =>
        (Returned /\ ResultInfOrNaN)

\* C6, amended: with edr == 0 or alpha == 1 neither function checks its
\* parameters or builds an error of its own.  With Python-float parameters
\* the division raises the interpreter's ZeroDivisionError and nothing is
\* returned; with numpy float64 parameters nothing is raised: edr == 0 gives
\* inf or NaN values, and alpha == 1 with edr # 0 gives the limit of
\* x**inf (steady state 0.0, 1.0 or inf; every trajectory row 1.0).
C6_Degenerate ==
    ((SteadyCalled \/ SolutionCalled) /\ Degenerate(cls) /\ Positive(k0)) =>
        /\ res.out.arith
        /\ cls.dtype = "float" =>
              /\ res.out.exc = "ZeroDivisionError"
              /\ SolutionCalled => res.out.traj = << >>
        /\ cls.dtype = "float64" =>
              /\ Returned
              /\ EDR(cls) = 0 => ResultInfOrNaN
              /\ (EDR(cls) # 0 /\ SteadyCalled) => res.out.val \in {0, One, PosInf}
              /\ (EDR(cls) # 0 /\ SolutionCalled) =>
                     /\ Len(res.out.traj) = Len(t)
                     /\ \A i \in DOMAIN t : K(i) = One

\* a Python-float model with edr == 0 whose trajectory call raised
C6_Witness ==
    /\ SolutionCalled /\ Degenerate(cls)
    /\ cls.dtype = "float"
    /\ EDR(cls) = 0 /\ cls.params["alpha"] # One
    /\ Len(t) > 0
    /\ res.out.exc = "ZeroDivisionError"

C8_Pure ==
    [][(res' # res /\ res'.op # "none") =>
          /\ cls' = cls
          /\ effective_depreciation_rate(cls') = effective_depreciation_rate(cls)
          /\ t' = t
          /\ k0' = k0
          /\ res'.op = "analytic_solution" =>
                 res'.out = analytic_solution(cls, t, k0)
          /\ res'.op = "analytic_steady_state" =>
                 res'.out = analytic_steady_state(cls)]_vars

\* a trajectory call that followed a steady-state call on the same model,
\* with a non-empty time array
C8_Witness ==
    /\ SolutionCalled /\ Returned
    /\ Len(t) = 2
    /\ k0 \notin K0s
    /\ res.out = analytic_solution(cls, t, k0)

(***************************************************************************)
(* C9: a missing parameter                                                 *)
(***************************************************************************)
\* C9: when 's' or 'alpha' is absent from params, both functions fail with
\* the mapping's KeyError before any arithmetic is evaluated, and return
\* nothing: no value and no row.
C9_MissingKey ==
    ((SteadyCalled \/ SolutionCalled)
        /\ ("s" \notin DOMAIN cls.params \/ "alpha" \notin DOMAIN cls.params)) =>
        /\ res.out.exc = "KeyError"
        /\ ~res.out.arith
        /\ SteadyCalled => IsNaN(res.out.val)
        /\ SolutionCalled => res.out.traj = << >>

\* a trajectory call with two time points on a model without 'alpha'
C9_Witness ==
    /\ SolutionCalled
    /\ "alpha" \notin DOMAIN cls.params
    /\ "s" \in DOMAIN cls.params
    /\ Len(t) = 2
    /\ res.out.exc = "KeyError"

(***************************************************************************)
(* C10: the bracketed expression and the range of the trajectory           *)
(***************************************************************************)
Min(a, b) == IF a <= b THEN a ELSE b
Max(a, b) == IF a >= b THEN a ELSE b

InRange ==
    /\ SolutionCalled /\ Valid(cls) /\ Positive(k0)
    /\ analytic_steady_state(cls).exc = "none"

\* C10 as stated: for a valid parameter set, k0 > 0 and t_i >= 0 the
\* bracket is strictly positive, k(t_i) is not NaN and lies between k0 and
\* the steady state inclusive, and the trajectory is monotone in t_i.
C10_BetweenMonotone ==
    InRange =>
        /\ Returned
        /\ \A i \in DOMAIN t :
               /\ res.out.bracket[i] > 0
               /\ ~IsNaN(K(i))
               /\ Min(k0, KStar(cls)) <= K(i)
               /\ K(i) <= Max(k0, KStar(cls))
        /\ \A i, j \in DOMAIN t :
               t[i] <= t[j] =>
                   /\ k0 <= KStar(cls) => K(i) <= K(j)
                   /\ k0 >= KStar(cls) => K(i) >= K(j)

\* C10, amended: for a valid parameter set (s/edr finite), k0 > 0 and
\* t_i >= 0 the bracket is a rounded sum of two non-negative products, so
\* it is not negative and not NaN, and k(t_i) is not NaN and not negative;
\* k(t_i) lies between k0 and the steady state, and the trajectory is
\* monotone, only up to rounding.
C10_NonNegative ==
    (SolutionCalled /\ Valid(cls) /\ Positive(k0)
        /\ IsFinite(Div(cls.params["s"], EDR(cls)))) =>
        /\ Returned
        /\ \A i \in DOMAIN t :
               /\ ~IsNaN(res.out.bracket[i]) /\ res.out.bracket[i] >= 0
               /\ ~IsNaN(K(i)) /\ K(i) >= 0

\* a two-row trajectory that starts below the steady state and rises
C10_Witness ==
    /\ InRange /\ Returned
    /\ Len(t) = 2
    /\ t[1] < t[2]
    /\ k0 < KStar(cls)
    /\ k0 <= K(1) /\ K(1) < K(2) /\ K(2) <= KStar(cls)
=============================================================================
